---- MODULE Spec2Model ----
(***************************************************************************)
(* State-machine model of src/app.py: the Flask order-management backend   *)
(* (users, partners, orders, coupons in the relational store; one signed   *)
(* cookie session per browser).  Every HTTP handler is one action; the     *)
(* response of the last request is kept in resp.                           *)
(* create_order is also given as two steps, its reads and its commit, for   *)
(* requests that overlap on the threaded server.                           *)
(*                                                                         *)
(* Money is counted in paise (1/100 rupee) so that the percentage          *)
(* discounts of the model are exact.  NULL ids and NULL numeric columns    *)
(* are 0 (the code tests them by truthiness), a NULL timestamp is -1.      *)
(* Time is counted in days since init_db ran.  The store is the default    *)
(* SQLite database, which does not enforce foreign keys.                   *)
(***************************************************************************)
EXTENDS Integers, Sequences, FiniteSets

\* ---------------------------------------------------------------- bounds
MaxClients == 2     \* browsers (cookie jars) issuing requests
MaxUsers == 2       \* rows of the user table (the seeded admin included)
MaxPartners == 2    \* rows of the partner table
MaxOrders == 2      \* rows of the order table
MaxTime == 1        \* last day the clock reaches
MaxDelivered == 2   \* cap on a partner's total_orders
SpecOrders == 1     \* orders placed under Spec
PricingPartners == 1  \* Partner rows made under SpecPricing
MaxTokens == 2      \* values secrets.token_hex(3) takes

Clients == 1..MaxClients
Phones == 1..MaxUsers
OrderIds == 1..MaxOrders
PartnerIds == 1..MaxPartners
Tokens == 1..MaxTokens

NULL == 0
NoTime == 0 - 1

Paise(rupees) == rupees * 100

VARIABLES users, partners, orders, coupons, sess, now, resp,
          tx,                       \* the create_order request each browser has open
          orderCoupon, deliveries   \* history: see Init

vars == <<users, partners, orders, coupons, sess, now, resp, tx, orderCoupon, deliveries>>

\* ------------------------------------------------------------ seed data
AdminPhone == 1

\* generate_password_hash / check_password_hash: a salted one-way hash that
\* verifies exactly the password it was made from.
generate_password_hash(pw) == <<"pbkdf2", pw>>

check_password_hash(h, pw) == h = generate_password_hash(pw)

\* init_db: the default admin account.
SeedAdmin ==
    [phone |-> AdminPhone, password_hash |-> generate_password_hash("admin123"), role |-> "admin"]

\* init_db: the four default services (base_price by service id).
Services == <<Paise(299), Paise(399), Paise(149), Paise(599)>>

\* The coupon table.  Row 1 is the coupon init_db seeds; the other rows are
\* rows of the same table with the other shapes the Coupon columns allow
\* (fixed type, a small usage_limit, an early valid_until, is_active false).
SeedCoupons == <<
    [code |-> "FIRST50", discount_type |-> "percentage", discount_value |-> 50,
     min_order_value |-> 0, max_discount |-> Paise(200), valid_until |-> 30,
     usage_limit |-> 100, usage_count |-> 0, is_active |-> TRUE],
    [code |-> "FLAT200", discount_type |-> "fixed", discount_value |-> Paise(200),
     min_order_value |-> Paise(500), max_discount |-> NULL, valid_until |-> 30,
     usage_limit |-> 1, usage_count |-> 0, is_active |-> TRUE],
    [code |-> "EARLY", discount_type |-> "fixed", discount_value |-> Paise(50),
     min_order_value |-> 0, max_discount |-> NULL, valid_until |-> 1,
     usage_limit |-> NULL, usage_count |-> 0, is_active |-> TRUE],
    [code |-> "OFF", discount_type |-> "fixed", discount_value |-> Paise(50),
     min_order_value |-> 0, max_discount |-> NULL, valid_until |-> 30,
     usage_limit |-> NULL, usage_count |-> 0, is_active |-> FALSE] >>

\* ------------------------------------------------------- request inputs
NoCode == "-"
Absent == "-absent-"
RoleInputs == {Absent, "partner", "admin"}
PasswordInputs == {"admin123", "pw"}

\* --------------------------------------------------------------- session
NoSession == [user_id |-> NULL, role |-> "-"]

\* 'user_id' in session
LoggedIn(c) == sess[c].user_id # NULL

Reply(op, c, code, id) == [op |-> op, c |-> c, code |-> code, id |-> id, error |-> "-"]

\* An unhandled exception: Flask answers 500.  For create_order, id is the
\* coupon row the request had accepted (NULL if none).
Failure(op, c, id, error) == [op |-> op, c |-> c, code |-> 500, id |-> id, error |-> error]

\* No create_order request open.
NoTx == [coupon |-> NULL]

Init ==
    /\ users = <<SeedAdmin>>
    /\ partners = <<>>
    /\ orders = <<>>
    /\ coupons = SeedCoupons
    /\ sess = [c \in Clients |-> NoSession]
    /\ now = 0
    /\ resp = Reply("init", 0, 0, 0)
    /\ tx = [c \in Clients |-> NoTx]
    \* orderCoupon[i]: the coupon_code the request that created order i sent.
    /\ orderCoupon = <<>>
    \* deliveries[p]: the successful "delivered" updates of orders assigned to p.
    /\ deliveries = [p \in PartnerIds |-> 0]

\* The clock advances between requests.
Tick ==
    /\ now' = now + 1
    /\ resp' = Reply("tick", 0, 0, 0)
    /\ UNCHANGED <<users, partners, orders, coupons, sess, orderCoupon, deliveries, tx>>

\* ------------------------------------------------------- authentication
UserByPhone(phone) == {u \in 1..Len(users) : users[u].phone = phone}

register(c, phone, role) ==
    IF UserByPhone(phone) # {}
    THEN /\ resp' = Reply("register", c, 400, 0)
         /\ UNCHANGED <<users, partners, orders, coupons, sess, now, orderCoupon, deliveries, tx>>
    ELSE /\ LET user == [phone |-> phone,
                         password_hash |-> generate_password_hash("pw"),
                         role |-> IF role = Absent THEN "customer" ELSE role]
            IN /\ users' = Append(users, user)
               /\ sess' = [sess EXCEPT ![c] = [user_id |-> Len(users) + 1, role |-> user.role]]
         /\ resp' = Reply("register", c, 201, 0)
         /\ UNCHANGED <<partners, orders, coupons, now, orderCoupon, deliveries, tx>>

login(c, phone, pw) ==
    LET found == UserByPhone(phone)
    IN IF found = {} \/ \A u \in found : ~check_password_hash(users[u].password_hash, pw)
       THEN /\ resp' = Reply("login", c, 401, 0)
            /\ UNCHANGED <<users, partners, orders, coupons, sess, now, orderCoupon, deliveries, tx>>
       ELSE /\ \E u \in found :
                 sess' = [sess EXCEPT ![c] = [user_id |-> u, role |-> users[u].role]]
            /\ resp' = Reply("login", c, 200, 0)
            /\ UNCHANGED <<users, partners, orders, coupons, now, orderCoupon, deliveries, tx>>

logout(c) ==
    /\ sess' = [sess EXCEPT ![c] = NoSession]
    /\ resp' = Reply("logout", c, 200, 0)
    /\ UNCHANGED <<users, partners, orders, coupons, now, orderCoupon, deliveries, tx>>

get_current_user(c) ==
    /\ resp' = Reply("get_current_user", c, IF LoggedIn(c) THEN 200 ELSE 401, 0)
    /\ UNCHANGED <<users, partners, orders, coupons, sess, now, orderCoupon, deliveries, tx>>

\* ------------------------------------------------------------ customers
\* Coupon.query.filter_by(code=..., is_active=True).first(): code is unique.
CouponByCode(code) ==
    {k \in 1..Len(coupons) : coupons[k].code = code /\ coupons[k].is_active}

CouponAccepted_inclusive(coupon, t) == coupon.valid_until >= t

\* create_order's acceptance test of a found coupon.
CouponAccepted(coupon, t) == coupon.valid_until > t

\* The discount both create_order and validate_coupon compute for a coupon.
CouponDiscount(coupon, order_value) ==
    IF coupon.discount_type = "percentage"
    THEN LET d == (order_value * coupon.discount_value) \div 100
         IN IF coupon.max_discount # NULL /\ coupon.max_discount < d
            THEN coupon.max_discount
            ELSE d
    ELSE coupon.discount_value

TotalPrice(base_price, string_price, discount) == base_price + string_price - discount

\* order_number: "PLR" + the day + secrets.token_hex(3).
OrderNumber(day, token) == <<day, token>>

\* The unique constraint on order.order_number, tested by the INSERT.
OrderNumberTaken(order_number) ==
    \E i \in 1..Len(orders) : orders[i].order_number = order_number

\* What create_order holds in its database session once the Order object is
\* built: the coupon row it accepted (NULL if none) with the usage_count it
\* read, and the columns of the order to insert.  Nothing is written yet.
Work(c, service_id, string_price, coupon_code, token) ==
    LET base_price == Services[service_id]
        found == IF coupon_code = NoCode THEN {} ELSE CouponByCode(coupon_code)
        applied == {k \in found : CouponAccepted(coupons[k], now)}
        coupon == IF applied = {} THEN NULL ELSE CHOOSE k \in applied : TRUE
        discount == IF coupon = NULL THEN 0
                    ELSE CouponDiscount(coupons[coupon], base_price + string_price)
    IN [customer_id |-> sess[c].user_id, service_id |-> service_id,
        base_price |-> base_price, string_price |-> string_price,
        discount |-> discount,
        total_price |-> TotalPrice(base_price, string_price, discount),
        order_number |-> OrderNumber(now, token),
        coupon_code |-> coupon_code, coupon |-> coupon,
        usage_count |-> IF coupon = NULL THEN 0 ELSE coupons[coupon].usage_count]

\* The coupon table as the session's flush writes it: coupon.usage_count += 1
\* was computed from the value the request read.
FlushedCoupons(work) ==
    IF work.coupon = NULL THEN coupons
    ELSE [coupons EXCEPT ![work.coupon].usage_count = work.usage_count + 1]

\* The order table after the INSERT; created_at and the defaults are set then.
FlushedOrders(work) ==
    Append(orders,
        [order_number |-> work.order_number, customer_id |-> work.customer_id,
         partner_id |-> NULL, service_id |-> work.service_id,
         base_price |-> work.base_price, string_price |-> work.string_price,
         discount |-> work.discount, total_price |-> work.total_price,
         status |-> "pending", created_at |-> now, completed_at |-> NoTime])

Persist_uncommitted(stored, pending, committed) == pending

\* What the store holds after the request: db.session.commit() writes the
\* whole session in one transaction; a request that raises before or in the
\* commit has its session dropped at teardown and writes nothing.
Persist(stored, pending, committed) == IF committed THEN pending ELSE stored

\* slot_ok is FALSE when pickup_slot is missing or malformed (the Order
\* constructor raises, after the coupon was counted in the session); the
\* commit raises when the order_number is taken.
create_order(c, service_id, string_price, coupon_code, slot_ok, token) ==
    IF ~LoggedIn(c)
    THEN /\ resp' = Reply("create_order", c, 401, 0)
         /\ UNCHANGED <<users, partners, orders, coupons, sess, now, orderCoupon, deliveries, tx>>
    ELSE IF service_id \notin 1..Len(Services)
    THEN /\ resp' = Reply("create_order", c, 404, 0)
         /\ UNCHANGED <<users, partners, orders, coupons, sess, now, orderCoupon, deliveries, tx>>
    ELSE LET work == Work(c, service_id, string_price, coupon_code, token)
             committed == slot_ok /\ ~OrderNumberTaken(work.order_number)
         IN  /\ coupons' = Persist(coupons, FlushedCoupons(work), committed)
             /\ orders' = Persist(orders,
                                  IF slot_ok THEN FlushedOrders(work) ELSE orders,
                                  committed)
             /\ orderCoupon' = IF committed THEN Append(orderCoupon, coupon_code)
                               ELSE orderCoupon
             /\ resp' = IF committed THEN Reply("create_order", c, 201, Len(orders) + 1)
                        ELSE Failure("create_order", c, work.coupon,
                                     IF slot_ok THEN "IntegrityError" ELSE "KeyError")
             /\ UNCHANGED <<users, partners, sess, now, deliveries, tx>>

\* The same handler when requests overlap (the server is threaded): the
\* request reads and builds its session in one step and commits in a later
\* one.  Only a request that reaches the commit is split.
create_order_read(c, service_id, string_price, coupon_code, token) ==
    /\ LoggedIn(c)
    /\ service_id \in 1..Len(Services)
    /\ tx[c] = NoTx
    /\ tx' = [tx EXCEPT ![c] = Work(c, service_id, string_price, coupon_code, token)]
    /\ UNCHANGED <<users, partners, orders, coupons, sess, now, resp, orderCoupon, deliveries>>

create_order_commit(c) ==
    /\ tx[c] # NoTx
    /\ LET work == tx[c]
           committed == ~OrderNumberTaken(work.order_number)
       IN /\ coupons' = Persist(coupons, FlushedCoupons(work), committed)
          /\ orders' = Persist(orders, FlushedOrders(work), committed)
          /\ orderCoupon' = IF committed THEN Append(orderCoupon, work.coupon_code)
                            ELSE orderCoupon
          /\ resp' = IF committed THEN Reply("create_order", c, 201, Len(orders) + 1)
                     ELSE Failure("create_order", c, work.coupon, "IntegrityError")
    /\ tx' = [tx EXCEPT ![c] = NoTx]
    /\ UNCHANGED <<users, partners, sess, now, deliveries>>

get_my_orders(c) ==
    /\ resp' = Reply("get_my_orders", c, IF LoggedIn(c) THEN 200 ELSE 401, 0)
    /\ UNCHANGED <<users, partners, orders, coupons, sess, now, orderCoupon, deliveries, tx>>

DetailsForbidden_nonadmin(s, order) == s.role # "admin" /\ order.customer_id # s.user_id

\* The ownership test of get_order_details.
DetailsForbidden(s, order) == s.role = "customer" /\ order.customer_id # s.user_id

get_order_details(c, order_id) ==
    /\ resp' = Reply("get_order_details", c,
                     IF ~LoggedIn(c) THEN 401
                     ELSE IF order_id \notin 1..Len(orders) THEN 404
                     ELSE IF DetailsForbidden(sess[c], orders[order_id]) THEN 403
                     ELSE 200,
                     order_id)
    /\ UNCHANGED <<users, partners, orders, coupons, sess, now, orderCoupon, deliveries, tx>>

validate_coupon(code, order_value) ==
    LET found == CouponByCode(code)
    IN /\ resp' = Reply("validate_coupon", 0,
                        IF found = {} THEN 404
                        ELSE LET coupon == coupons[CHOOSE k \in found : TRUE]
                             IN IF coupon.valid_until < now THEN 400
                                ELSE IF coupon.usage_limit # NULL
                                        /\ coupon.usage_count >= coupon.usage_limit THEN 400
                                ELSE IF order_value < coupon.min_order_value THEN 400
                                ELSE 200,
                        0)
       /\ UNCHANGED <<users, partners, orders, coupons, sess, now, orderCoupon, deliveries, tx>>

\* -------------------------------------------------------------- partners
\* Partner.query.filter_by(user_id=...): the caller's Partner rows.  The
\* query has no ORDER BY, so first() may return any of them.
PartnersOf(user_id) == {p \in 1..Len(partners) : partners[p].user_id = user_id}

UpgradedSession_stale(s) == s

\* register_partner's write to the caller's session.
UpgradedSession(s) == [s EXCEPT !.role = "partner"]

register_partner(c) ==
    IF ~LoggedIn(c)
    THEN /\ resp' = Reply("register_partner", c, 401, 0)
         /\ UNCHANGED <<users, partners, orders, coupons, sess, now, orderCoupon, deliveries, tx>>
    ELSE /\ partners' = Append(partners,
                [user_id |-> sess[c].user_id, status |-> "pending", total_orders |-> 0])
         /\ users' = [users EXCEPT ![sess[c].user_id].role = "partner"]
         /\ sess' = [sess EXCEPT ![c] = UpgradedSession(@)]
         /\ resp' = Reply("register_partner", c, 201, Len(partners) + 1)
         /\ UNCHANGED <<orders, coupons, now, orderCoupon, deliveries, tx>>

\* The gate of the partner endpoints.
PartnerSession(s) == s.user_id # NULL /\ s.role = "partner"

get_partner_orders(c) ==
    /\ resp' = Reply("get_partner_orders", c,
                     IF ~PartnerSession(sess[c]) THEN 403
                     ELSE IF PartnersOf(sess[c].user_id) = {} THEN 404
                     ELSE 200,
                     0)
    /\ UNCHANGED <<users, partners, orders, coupons, sess, now, orderCoupon, deliveries, tx>>

DeliveredCount_once(order, total_orders) ==
    IF order.status = "delivered" THEN total_orders ELSE total_orders + 1

\* The side effect of the "delivered" status on the partner's counter.
DeliveredCount(order, total_orders) == total_orders + 1

OrderIsPartners_any(order, p) == TRUE

\* update_order_status's test that the order is assigned to the caller.
OrderIsPartners(order, p) == order.partner_id = p

\* status is Absent when the body has no status key (KeyError).  A partner
\* session without a Partner row dereferences None (AttributeError) once the
\* order is found.
update_order_status(c, order_id, status) ==
    IF ~PartnerSession(sess[c])
    THEN /\ resp' = Reply("update_order_status", c, 403, order_id)
         /\ UNCHANGED <<users, partners, orders, coupons, sess, now, orderCoupon, deliveries, tx>>
    ELSE IF order_id \notin 1..Len(orders)
    THEN /\ resp' = Reply("update_order_status", c, 404, order_id)
         /\ UNCHANGED <<users, partners, orders, coupons, sess, now, orderCoupon, deliveries, tx>>
    ELSE IF PartnersOf(sess[c].user_id) = {}
    THEN /\ resp' = Reply("update_order_status", c, 500, order_id)
         /\ UNCHANGED <<users, partners, orders, coupons, sess, now, orderCoupon, deliveries, tx>>
    ELSE \E p \in PartnersOf(sess[c].user_id) :
         IF ~OrderIsPartners(orders[order_id], p)
         THEN /\ resp' = Reply("update_order_status", c, 404, order_id)
              /\ UNCHANGED <<users, partners, orders, coupons, sess, now, orderCoupon, deliveries, tx>>
         ELSE IF status = Absent
         THEN /\ resp' = Reply("update_order_status", c, 500, order_id)
              /\ UNCHANGED <<users, partners, orders, coupons, sess, now, orderCoupon, deliveries, tx>>
         ELSE /\ IF status = "delivered"
                 THEN /\ orders' = [orders EXCEPT ![order_id].status = status,
                                                  ![order_id].completed_at = now]
                      /\ partners' = [partners EXCEPT
                             ![p].total_orders = DeliveredCount(orders[order_id], @)]
                      /\ deliveries' =
                             [deliveries EXCEPT ![orders[order_id].partner_id] = @ + 1]
                 ELSE /\ orders' = [orders EXCEPT ![order_id].status = status]
                      /\ UNCHANGED <<partners, deliveries>>
              /\ resp' = Reply("update_order_status", c, 200, order_id)
              /\ UNCHANGED <<users, coupons, sess, now, orderCoupon, tx>>

\* ---------------------------------------------------------------- admins
AdminSession_anyrole(s) == s.user_id # NULL

\* The gate of the admin endpoints.
AdminSession(s) == s.user_id # NULL /\ s.role = "admin"

get_all_partners(c) ==
    /\ resp' = Reply("get_all_partners", c, IF AdminSession(sess[c]) THEN 200 ELSE 403, 0)
    /\ UNCHANGED <<users, partners, orders, coupons, sess, now, orderCoupon, deliveries, tx>>

approve_partner(c, partner_id) ==
    IF ~AdminSession(sess[c])
    THEN /\ resp' = Reply("approve_partner", c, 403, partner_id)
         /\ UNCHANGED <<users, partners, orders, coupons, sess, now, orderCoupon, deliveries, tx>>
    ELSE IF partner_id \notin 1..Len(partners)
    THEN /\ resp' = Reply("approve_partner", c, 404, partner_id)
         /\ UNCHANGED <<users, partners, orders, coupons, sess, now, orderCoupon, deliveries, tx>>
    ELSE /\ partners' = [partners EXCEPT ![partner_id].status = "approved"]
         /\ resp' = Reply("approve_partner", c, 200, partner_id)
         /\ UNCHANGED <<users, orders, coupons, sess, now, orderCoupon, deliveries, tx>>

get_all_orders(c) ==
    /\ resp' = Reply("get_all_orders", c, IF AdminSession(sess[c]) THEN 200 ELSE 403, 0)
    /\ UNCHANGED <<users, partners, orders, coupons, sess, now, orderCoupon, deliveries, tx>>

\* partner_id is stored as sent: no check that such a Partner row exists.
assign_partner(c, order_id, partner_id) ==
    IF ~AdminSession(sess[c])
    THEN /\ resp' = Reply("assign_partner", c, 403, order_id)
         /\ UNCHANGED <<users, partners, orders, coupons, sess, now, orderCoupon, deliveries, tx>>
    ELSE IF order_id \notin 1..Len(orders)
    THEN /\ resp' = Reply("assign_partner", c, 404, order_id)
         /\ UNCHANGED <<users, partners, orders, coupons, sess, now, orderCoupon, deliveries, tx>>
    ELSE /\ orders' = [orders EXCEPT ![order_id].partner_id = partner_id,
                                     ![order_id].status = "assigned"]
         /\ resp' = Reply("assign_partner", c, 200, order_id)
         /\ UNCHANGED <<users, partners, coupons, sess, now, orderCoupon, deliveries, tx>>

get_analytics(c) ==
    /\ resp' = Reply("get_analytics", c, IF AdminSession(sess[c]) THEN 200 ELSE 403, 0)
    /\ UNCHANGED <<users, partners, orders, coupons, sess, now, orderCoupon, deliveries, tx>>

\* ------------------------------------------------------- specifications
\* Every handler, called from browser 1, with the clock stopped.
StatusInputs == {Absent, "in_repair", "delivered"}

CanDeliver == \A p \in 1..Len(partners) : partners[p].total_orders < MaxDelivered

Next ==
    \/ \E phone \in Phones, role \in RoleInputs :
         (UserByPhone(phone) = {} => Len(users) < MaxUsers) /\ register(1, phone, role)
    \/ \E phone \in Phones, pw \in PasswordInputs : login(1, phone, pw)
    \/ logout(1)
    \/ get_current_user(1)
    \/ \E service_id \in {3, 5}, slot_ok \in BOOLEAN :
         Len(orders) < SpecOrders
         /\ create_order(1, service_id, 0, NoCode, slot_ok, Len(orders) + 1)
    \/ get_my_orders(1)
    \/ \E order_id \in OrderIds : get_order_details(1, order_id)
    \/ validate_coupon("FIRST50", Paise(149))
    \/ Len(partners) < MaxPartners /\ register_partner(1)
    \/ get_partner_orders(1)
    \/ \E order_id \in OrderIds, status \in StatusInputs :
         CanDeliver /\ update_order_status(1, order_id, status)
    \/ get_all_partners(1)
    \/ \E partner_id \in PartnerIds : approve_partner(1, partner_id)
    \/ get_all_orders(1)
    \/ \E order_id \in OrderIds, partner_id \in PartnerIds :
         assign_partner(1, order_id, partner_id)
    \/ get_analytics(1)

Spec == Init /\ [][Next]_vars

\* Sessions: two browsers, the handlers that create or change a session.
NextAuth ==
    \/ \E c \in Clients, phone \in Phones, role \in RoleInputs :
         (UserByPhone(phone) = {} => Len(users) < MaxUsers) /\ register(c, phone, role)
    \/ \E c \in Clients, phone \in Phones, pw \in PasswordInputs : login(c, phone, pw)
    \/ \E c \in Clients : logout(c)
    \/ \E c \in Clients : get_current_user(c)
    \/ \E c \in Clients : Len(partners) < MaxPartners /\ register_partner(c)

SpecAuth == Init /\ [][NextAuth]_vars

\* Pricing: browser 1, the clock running, every coupon and price input,
\* and the handlers that write orders and coupons.
ServiceInputs == {3, 4, 5}
StringPriceInputs == {0, Paise(401)}
CouponInputs == {NoCode, "FIRST50", "FLAT200", "EARLY", "OFF", "NOPE"}
OrderValueInputs == {Paise(149), Paise(1000)}

NextPricing ==
    \/ now < MaxTime /\ Tick
    \/ \E pw \in PasswordInputs : login(1, AdminPhone, pw)
    \/ \E service_id \in ServiceInputs, string_price \in StringPriceInputs,
          coupon_code \in CouponInputs, slot_ok \in BOOLEAN :
         Len(orders) < MaxOrders
         /\ create_order(1, service_id, string_price, coupon_code, slot_ok, Len(orders) + 1)
    \/ \E coupon_code \in CouponInputs \ {NoCode}, order_value \in OrderValueInputs :
         validate_coupon(coupon_code, order_value)
    \/ Len(partners) < PricingPartners /\ register_partner(1)
    \/ \E order_id \in OrderIds :
         CanDeliver /\ update_order_status(1, order_id, "delivered")
    \/ \E order_id \in OrderIds : assign_partner(1, order_id, 1)

SpecPricing == Init /\ [][NextPricing]_vars

\* Checkout: two browsers placing orders, overlapping or not, with order
\* numbers that can collide and the clock running.
OpenRequests == Cardinality({c \in Clients : tx[c] # NoTx})

NextCheckout ==
    \/ now < MaxTime /\ Tick
    \/ \E c \in Clients, pw \in PasswordInputs : login(c, AdminPhone, pw)
    \/ \E c \in Clients, coupon_code \in {NoCode, "FIRST50"}, slot_ok \in BOOLEAN,
          token \in Tokens :
         /\ Len(orders) + OpenRequests < MaxOrders
         /\ tx[c] = NoTx
         /\ create_order(c, 3, 0, coupon_code, slot_ok, token)
    \/ \E c \in Clients, coupon_code \in {NoCode, "FIRST50"}, token \in Tokens :
         /\ Len(orders) + OpenRequests < MaxOrders
         /\ create_order_read(c, 3, 0, coupon_code, token)
    \/ \E c \in Clients : create_order_commit(c)

SpecCheckout == Init /\ [][NextCheckout]_vars

\* --------------------------------------------------------------- claims
ErrorCodes == {400, 401, 403, 404, 500}
SessionOps ==
    {"get_current_user", "create_order", "get_my_orders", "get_order_details",
     "register_partner"}
PartnerOps == {"get_partner_orders", "update_order_status"}
AdminOps ==
    {"get_all_partners", "approve_partner", "get_all_orders", "assign_partner",
     "get_analytics"}

\* The request that created order i sent no coupon code, or a code that is
\* unknown, inactive, or not valid later than the order's creation time.
NoCouponFor(i) ==
    \/ orderCoupon[i] = NoCode
    \/ ~\E k \in 1..Len(coupons) :
          /\ coupons[k].code = orderCoupon[i]
          /\ coupons[k].is_active
          /\ coupons[k].valid_until > orders[i].created_at

\* C1: every stored order has total_price = base_price + string_price -
\* discount, and discount 0 when it was created with no coupon code or with a
\* code that is unknown, inactive or not valid later than its creation time.
C1_TotalPrice ==
    \A i \in 1..Len(orders) :
       /\ orders[i].total_price
            = orders[i].base_price + orders[i].string_price - orders[i].discount
       /\ NoCouponFor(i) => orders[i].discount = 0

\* An order created on the day its coupon runs out got no discount and was
\* then assigned and delivered; another order carries a discount.
C1_Witness ==
    /\ \E i \in 1..Len(orders) :
          /\ orderCoupon[i] = "EARLY"
          /\ orders[i].created_at = 1
          /\ orders[i].discount = 0
          /\ orders[i].partner_id # NULL
          /\ orders[i].status = "delivered"
    /\ \E j \in 1..Len(orders) : orders[j].discount > 0

\* C2: every coupon with a usage_limit set has usage_count <= usage_limit.
C2_UsageWithinLimit ==
    \A k \in 1..Len(coupons) :
       coupons[k].usage_limit # NULL => coupons[k].usage_count <= coupons[k].usage_limit

\* C3: the discount of every order created with a coupon applied is at most
\* the order value and, when the coupon has max_discount set, at most that.
C3_DiscountCapped ==
    \A i \in 1..Len(orders) :
       \A k \in 1..Len(coupons) :
          (~NoCouponFor(i) /\ coupons[k].code = orderCoupon[i]) =>
             /\ orders[i].discount <= orders[i].base_price + orders[i].string_price
             /\ coupons[k].max_discount # NULL =>
                   orders[i].discount <= coupons[k].max_discount

\* C4: a session- or role-gated endpoint answers 401 to a request with no
\* session and 403 to a session with the wrong role.
C4_Unauthorized ==
    resp.op \in SessionOps \cup PartnerOps \cup AdminOps =>
       /\ ~LoggedIn(resp.c) => resp.code = 401
       /\ (LoggedIn(resp.c) /\ resp.op \in PartnerOps /\ sess[resp.c].role # "partner")
             => resp.code = 403
       /\ (LoggedIn(resp.c) /\ resp.op \in AdminOps /\ sess[resp.c].role # "admin")
             => resp.code = 403

\* C5: get_order_details on an existing order answers 403 to a customer
\* session that does not own the order, and 200 to every partner or admin
\* session, whoever owns the order and whoever it is assigned to.
C5_OrderDetails ==
    (resp.op = "get_order_details" /\ LoggedIn(resp.c) /\ resp.id \in 1..Len(orders)) =>
       /\ (sess[resp.c].role = "customer"
           /\ orders[resp.id].customer_id # sess[resp.c].user_id) => resp.code = 403
       /\ sess[resp.c].role \in {"partner", "admin"} => resp.code = 200

\* A customer session asked for another user's order.
C5_Witness ==
    /\ resp.op = "get_order_details"
    /\ resp.id \in 1..Len(orders)
    /\ sess[resp.c].role = "customer"
    /\ orders[resp.id].customer_id # sess[resp.c].user_id
    /\ resp.code = 403

\* C6: update_order_status answers an error and changes no order and no
\* partner unless the caller's session role is partner and the order is
\* assigned to a Partner row of the caller.
C6_OnlyOwnPartnerUpdates ==
    [][resp'.op = "update_order_status" =>
         LET s == sess[resp'.c]
             entitled == /\ s.role = "partner"
                         /\ resp'.id \in 1..Len(orders)
                         /\ \E p \in 1..Len(partners) :
                               /\ partners[p].user_id = s.user_id
                               /\ orders[resp'.id].partner_id = p
         IN ~entitled =>
               /\ resp'.code \in ErrorCodes
               /\ orders' = orders
               /\ partners' = partners]_vars

\* A partner-role session without a Partner row asked to update an order.
C6_Witness ==
    /\ resp.op = "update_order_status"
    /\ resp.id \in 1..Len(orders)
    /\ sess[resp.c].role = "partner"
    /\ \A p \in 1..Len(partners) : partners[p].user_id # sess[resp.c].user_id
    /\ resp.code = 500

\* C7: a partner's status leaves pending, and an order's partner_id is set,
\* only in a step of approve_partner or assign_partner under an admin
\* session; an admin endpoint called without the admin role answers an error
\* and changes no partner and no order.
C7_OnlyAdmin ==
    [][LET approved == \E p \in 1..Len(partners) :
                          partners[p].status = "pending" /\ partners'[p].status # "pending"
           assigned == \E o \in 1..Len(orders') :
                          orders'[o].partner_id #
                             (IF o <= Len(orders) THEN orders[o].partner_id ELSE NULL)
       IN /\ (approved \/ assigned) =>
                /\ resp'.op \in {"approve_partner", "assign_partner"}
                /\ sess[resp'.c].role = "admin"
          /\ (resp'.op \in AdminOps /\ sess[resp'.c].role # "admin") =>
                /\ resp'.code \in ErrorCodes
                /\ partners' = partners
                /\ orders' = orders]_vars

\* A partner session asked to approve a pending partner.
C7_Witness ==
    /\ resp.op = "approve_partner"
    /\ sess[resp.c].role = "partner"
    /\ resp.id \in 1..Len(partners)
    /\ partners[resp.id].status = "pending"
    /\ resp.code = 403

\* C8: a partner's total_orders equals the number of successful "delivered"
\* status updates of orders assigned to it, each counted once per update.
C8_TotalOrders ==
    \A p \in 1..Len(partners) : partners[p].total_orders = deliveries[p]

\* The same order was delivered twice.
C8_Witness ==
    /\ resp.op = "update_order_status"
    /\ resp.code = 200
    /\ Len(orders) = 1
    /\ orders[1].status = "delivered"
    /\ \E p \in 1..Len(partners) : p = orders[1].partner_id /\ partners[p].total_orders = 2

\* C9 as stated: every session carries the role stored on its user record.
C9_EverySessionRole ==
    \A c \in Clients : LoggedIn(c) => sess[c].role = users[sess[c].user_id].role

\* C9 as amended: after a successful register, login or register_partner the
\* session that made the request carries the role stored on its user record,
\* and a session carries another role only when the record says partner.
C9_ActingSessionRole ==
    /\ (resp.op \in {"register", "login", "register_partner"} /\ resp.code \in {200, 201})
          => sess[resp.c].role = users[sess[resp.c].user_id].role
    /\ \A c \in Clients :
          (LoggedIn(c) /\ sess[c].role # users[sess[c].user_id].role)
             => users[sess[c].user_id].role = "partner"

\* register_partner succeeded while another browser holds a session of the
\* same user, which keeps the role it was opened with.
C9_Witness ==
    /\ resp.op = "register_partner"
    /\ resp.code = 201
    /\ sess[resp.c].role = "partner"
    /\ \E c \in Clients :
          /\ c # resp.c
          /\ sess[c].user_id = sess[resp.c].user_id
          /\ sess[c].role # "partner"

\* C10: no two Partner rows have the same user_id.
C10_OnePartnerPerUser ==
    \A p, q \in 1..Len(partners) : p # q => partners[p].user_id # partners[q].user_id

\* C11: a create_order request that fails after its coupon was accepted
\* (pickup_slot missing or malformed, or the order_number rejected at commit)
\* adds no order row and leaves every coupon's usage_count as it was.
C11_FailedOrderWritesNothing ==
    [][(resp'.op = "create_order" /\ resp'.code = 500 /\ resp'.id # NULL) =>
          /\ orders' = orders
          /\ coupons' = coupons]_vars

\* A request that had accepted a coupon was rejected for its order_number,
\* taken by the one order placed before; the coupon is still unused.
C11_Witness ==
    /\ resp.op = "create_order"
    /\ resp.error = "IntegrityError"
    /\ resp.id # NULL
    /\ coupons[resp.id].usage_count = 0
    /\ Len(orders) = 1

\* C12: once no create_order request is open, every coupon's usage_count is
\* its initial value plus the number of orders created with it applied.
C12_NoLostIncrement ==
    (\A c \in Clients : tx[c] = NoTx) =>
       \A k \in 1..Len(coupons) :
          coupons[k].usage_count
             = SeedCoupons[k].usage_count
               + Cardinality({i \in 1..Len(orders) :
                                 orderCoupon[i] = coupons[k].code /\ ~NoCouponFor(i)})
====
